---- MODULE Spec2Model ----
(***************************************************************************)
(* Model of src/schedule.py: the minimal-day match scheduler              *)
(* (generate_assignments, get_optimizing_solution, schedule_matches) and   *)
(* the lazy Prim minimum spanning tree (prim_mst), as called from          *)
(* src/tournament.py and src/main.py.                                      *)
(*                                                                         *)
(* Conventions.  A stadium id "s<j>" is the integer j (ids stay below 10,  *)
(* where the string order of "s<j>" is the order of j).  A Match is a pair *)
(* of integers.  A Python dict is the sequence of its <<key, value>>       *)
(* entries in insertion order.  An Optional[Schedule] is a record with the *)
(* fields isNone and sched.  Python positions are 0-based and kept so for  *)
(* dp and i; sequences are 1-based, so matches[p] is Python's matches[p-1].*)
(***************************************************************************)
EXTENDS Integers, Sequences, FiniteSets

\* ---- bounds of the explored inputs ----
MaxMatches == 4
MaxVenues == 3
MaxPool == 2
MaxVertices == 3
MaxWeight == 2
MaxStadiums == 6

VARIABLES pc, matches, num_stadiums, dp, i, block, assignments,
          stadiums, distances, visited, min_heap, mst, total_cost

vars == <<pc, matches, num_stadiums, dp, i, block, assignments,
          stadiums, distances, visited, min_heap, mst, total_cost>>

schedVars == <<matches, num_stadiums, dp, i>>
genVars == <<block, assignments>>
primVars == <<stadiums, distances, visited, min_heap, mst, total_cost>>

\* ------------------------------------------------------------------
\* Generic helpers
\* ------------------------------------------------------------------
Range(s) == {s[j] : j \in 1..Len(s)}

\* Python's range(a, b) as a sequence, 0-based values
RECURSIVE Iota(_, _)
Iota(a, b) == IF a >= b THEN <<>> ELSE <<a>> \o Iota(a + 1, b)

\* s without its element at position p
RemoveAt(s, p) == SubSeq(s, 1, p - 1) \o SubSeq(s, p + 1, Len(s))

RECURSIVE Flatten(_)
Flatten(ss) == IF ss = <<>> THEN <<>> ELSE Head(ss) \o Flatten(Tail(ss))

\* ------------------------------------------------------------------
\* Optional[Schedule]
\* ------------------------------------------------------------------
None == [isNone |-> TRUE, sched |-> <<>>]
Some(s) == [isNone |-> FALSE, sched |-> s]

\* ------------------------------------------------------------------
\* Python dict as an insertion-ordered list of <<key, value>> entries
\* ------------------------------------------------------------------
DictKeys(d) == {d[j][1] : j \in 1..Len(d)}

\* d[key] = val: overwrite in place when the key is present, append otherwise
DictSet(d, key, val) ==
    IF key \in DictKeys(d)
    THEN [j \in 1..Len(d) |-> IF d[j][1] = key THEN <<key, val>> ELSE d[j]]
    ELSE Append(d, <<key, val>>)

\* ------------------------------------------------------------------
\* create_matches(length) = [(1,2), (3,4), ...]
\* ------------------------------------------------------------------
create_matches(length) == [p \in 1..length |-> <<2 * (p - 1) + 1, 2 * (p - 1) + 2>>]

\* the fixed round-robin matchups of a group of 4 teams
matchups == << <<0, 1>>, <<0, 2>>, <<0, 3>>, <<1, 2>>, <<1, 3>>, <<2, 3>> >>

\* variant: one stadium fewer than asked for
MakeStadiums_OneShort(num) == Iota(1, num)

\* the stadium list built by schedule_matches: ids s1..s<num>
MakeStadiums(num) == Iota(1, num + 1)

\* ------------------------------------------------------------------
\* k_permutations: itertools.permutations(arr, k), in generator order
\* (lexicographic in the positions of arr)
\* ------------------------------------------------------------------
\* variant: itertools.combinations, the selections in increasing position only
RECURSIVE k_permutations_Combinations(_, _)
RECURSIVE CombsFrom(_, _, _)
CombsFrom(arr, k, p) ==
    IF p > Len(arr) THEN <<>>
    ELSE LET rest == k_permutations_Combinations(SubSeq(arr, p + 1, Len(arr)), k - 1)
         IN  [q \in 1..Len(rest) |-> <<arr[p]>> \o rest[q]] \o CombsFrom(arr, k, p + 1)
k_permutations_Combinations(arr, k) ==
    IF k = 0 THEN << <<>> >>
    ELSE IF k > Len(arr) THEN <<>>
    ELSE CombsFrom(arr, k, 1)

RECURSIVE k_permutations(_, _)
RECURSIVE PermsFrom(_, _, _)
PermsFrom(arr, k, p) ==
    IF p > Len(arr) THEN <<>>
    ELSE LET rest == k_permutations(RemoveAt(arr, p), k - 1)
         IN  [q \in 1..Len(rest) |-> <<arr[p]>> \o rest[q]] \o PermsFrom(arr, k, p + 1)
k_permutations(arr, k) ==
    IF k = 0 THEN << <<>> >>
    ELSE IF k > Len(arr) THEN <<>>
    ELSE PermsFrom(arr, k, 1)

\* ------------------------------------------------------------------
\* generate_assignments
\* ------------------------------------------------------------------
\* variant: every match of the block keyed by the first venue of the permutation
RECURSIVE BuildDay_FirstVenue(_, _, _, _)
BuildDay_FirstVenue(blk, perm, j, day_sched) ==
    IF j > Len(blk) THEN day_sched
    ELSE BuildDay_FirstVenue(blk, perm, j + 1, DictSet(day_sched, perm[1], blk[j]))

\* the inner loop: day_sched[perm[j].id] = block[j] for j in block order
RECURSIVE BuildDay(_, _, _, _)
BuildDay(blk, perm, j, day_sched) ==
    IF j > Len(blk) THEN day_sched
    ELSE BuildDay(blk, perm, j + 1, DictSet(day_sched, perm[j], blk[j]))

\* variant: the guard rejects a block as long as the venue list
generate_assignments_Strict(blk, stads) ==
    IF Len(blk) >= Len(stads) THEN <<>>
    ELSE LET perms == k_permutations(stads, Len(blk))
         IN  [q \in 1..Len(perms) |-> BuildDay(blk, perms[q], 1, <<>>)]

generate_assignments(blk, stads) ==
    IF Len(blk) > Len(stads) THEN <<>>
    ELSE LET perms == k_permutations(stads, Len(blk))
         IN  [q \in 1..Len(perms) |-> BuildDay(blk, perms[q], 1, <<>>)]

\* ------------------------------------------------------------------
\* get_optimizing_solution
\* ------------------------------------------------------------------
\* variant: the comparison reversed, a longer candidate replaces the kept one
RECURSIVE LoopAssignments_KeepLonger(_, _, _, _)
LoopAssignments_KeepLonger(day_assignments, q, tail, best) ==
    IF q > Len(day_assignments) THEN best
    ELSE LET candidate == <<day_assignments[q]>> \o tail
         IN  LoopAssignments_KeepLonger(day_assignments, q + 1, tail,
                 IF best.isNone \/ Len(candidate) > Len(best.sched)
                 THEN Some(candidate) ELSE best)

\* variant: a candidate of equal length replaces the kept one
RECURSIVE LoopAssignments_KeepLast(_, _, _, _)
LoopAssignments_KeepLast(day_assignments, q, tail, best) ==
    IF q > Len(day_assignments) THEN best
    ELSE LET candidate == <<day_assignments[q]>> \o tail
         IN  LoopAssignments_KeepLast(day_assignments, q + 1, tail,
                 IF best.isNone \/ Len(candidate) <= Len(best.sched)
                 THEN Some(candidate) ELSE best)

\* variant: the day is put after the continuation instead of before it
RECURSIVE LoopAssignments_DayLast(_, _, _, _)
LoopAssignments_DayLast(day_assignments, q, tail, best) ==
    IF q > Len(day_assignments) THEN best
    ELSE LET candidate == tail \o <<day_assignments[q]>>
         IN  LoopAssignments_DayLast(day_assignments, q + 1, tail,
                 IF best.isNone \/ Len(candidate) < Len(best.sched)
                 THEN Some(candidate) ELSE best)

\* for assignment in day_assignments: keep the candidate when strictly shorter
RECURSIVE LoopAssignments(_, _, _, _)
LoopAssignments(day_assignments, q, tail, best) ==
    IF q > Len(day_assignments) THEN best
    ELSE LET candidate == <<day_assignments[q]>> \o tail
         IN  LoopAssignments(day_assignments, q + 1, tail,
                 IF best.isNone \/ Len(candidate) < Len(best.sched)
                 THEN Some(candidate) ELSE best)

\* for k in range(1, m + 1), with the break, the continue and the dp test
RECURSIVE LoopK(_, _, _, _, _, _)
LoopK(k, best, pos, table, ms, stads) ==
    LET n == Len(ms)
        m == Len(stads)
    IN  IF k > m THEN best
        ELSE IF pos + k > n THEN best
        ELSE LET blk == SubSeq(ms, pos + 1, pos + k)
                 day_assignments == generate_assignments(blk, stads)
             IN  IF day_assignments = <<>>
                 THEN LoopK(k + 1, best, pos, table, ms, stads)
                 ELSE IF ~table[pos + k].isNone
                 THEN LoopK(k + 1,
                            LoopAssignments(day_assignments, 1, table[pos + k].sched, best),
                            pos, table, ms, stads)
                 ELSE LoopK(k + 1, best, pos, table, ms, stads)

get_optimizing_solution(pos, table, ms, stads) == LoopK(1, None, pos, table, ms, stads)

\* ------------------------------------------------------------------
\* prim_mst
\* ------------------------------------------------------------------
\* the stadium id list of Tournament.__init__: ["s1", ..., "s<num>"]
TournamentStadiums(num) == Iota(1, num + 1)

\* the distance table of build_stadium_network, as its set of
\* <<from, to, distance>> entries (one entry per key)
FixedDistances ==
    { <<1, 2, 5>>, <<1, 3, 10>>, <<1, 4, 15>>, <<1, 5, 20>>,
      <<2, 3, 25>>, <<2, 4, 20>>, <<2, 5, 15>>,
      <<3, 4, 10>>, <<3, 5, 5>>, <<4, 5, 10>> }

\* (a, b) in distances
HasKey(dist, a, b) == \E e \in dist : e[1] = a /\ e[2] = b
\* distances[(a, b)]
Lookup(dist, a, b) == (CHOOSE e \in dist : e[1] = a /\ e[2] = b)[3]

\* Python's order on the heap entries (cost, from, to): lexicographic
EntryLess(x, y) ==
    \/ x[1] < y[1]
    \/ x[1] = y[1] /\ x[2] < y[2]
    \/ x[1] = y[1] /\ x[2] = y[2] /\ x[3] < y[3]

\* variant: the greatest entry is popped
HeapMin_Greatest(heap) == CHOOSE x \in heap : \A y \in heap : y = x \/ EntryLess(y, x)

\* heapq.heappop: the least entry of the heap.  The heap is kept as the set
\* of its entries: an entry (cost, from, to) is pushed only while 'from' is
\* being visited, which happens once, so no entry is pushed twice.
HeapMin(heap) == CHOOSE x \in heap : \A y \in heap : y = x \/ EntryLess(x, y)

\* variant: the table is looked up as (to, neighbor) only
RECURSIVE PushNeighbors_OneWay(_, _, _, _, _, _)
PushNeighbors_OneWay(heap, to, vis, dist, stads, j) ==
    IF j > Len(stads) THEN heap
    ELSE LET neighbor == stads[j]
         IN  IF ~vis[neighbor] /\ HasKey(dist, to, neighbor)
             THEN PushNeighbors_OneWay(heap \cup {<<Lookup(dist, to, neighbor), to, neighbor>>},
                                       to, vis, dist, stads, j + 1)
             ELSE PushNeighbors_OneWay(heap, to, vis, dist, stads, j + 1)

\* for neighbor in stadiums: the two-way lookup and the pushes
RECURSIVE PushNeighbors(_, _, _, _, _, _)
PushNeighbors(heap, to, vis, dist, stads, j) ==
    IF j > Len(stads) THEN heap
    ELSE LET neighbor == stads[j]
         IN  IF ~vis[neighbor] /\ HasKey(dist, to, neighbor)
             THEN PushNeighbors(heap \cup {<<Lookup(dist, to, neighbor), to, neighbor>>},
                                to, vis, dist, stads, j + 1)
             ELSE IF ~vis[neighbor] /\ HasKey(dist, neighbor, to)
             THEN PushNeighbors(heap \cup {<<Lookup(dist, neighbor, to), to, neighbor>>},
                                to, vis, dist, stads, j + 1)
             ELSE PushNeighbors(heap, to, vis, dist, stads, j + 1)

\* the loop condition: while min_heap and len(mst) < num_stadiums - 1
LoopCondition(heap, tree, stads) == heap # {} /\ Len(tree) < Len(stads) - 1

\* ------------------------------------------------------------------
\* Inputs
\* ------------------------------------------------------------------
\* match lists: every list of at most MaxMatches matches over the first
\* MaxPool matches of create_matches (repetitions included), the lists
\* create_matches builds, and the round-robin matchups of the tournament
MatchPool == Range(create_matches(MaxPool))

RECURSIVE SeqsUpTo(_, _)
SeqsUpTo(S, len) ==
    IF len = 0 THEN {<<>>}
    ELSE LET shorter == SeqsUpTo(S, len - 1)
         IN  shorter \cup {Append(s, x) : s \in {t \in shorter : Len(t) = len - 1}, x \in S}

MatchLists ==
    SeqsUpTo(MatchPool, MaxMatches)
        \cup {create_matches(len) : len \in 0..MaxMatches}
        \cup {matchups}

\* weight tables over the vertices 1..n, keyed (a, b) with a < b as the
\* table of build_stadium_network is, weights 0..MaxWeight, any pair absent
Pairs(n) == {p \in (1..n) \X (1..n) : p[1] < p[2]}
Tables(n) ==
    UNION { { {<<p[1], p[2], f[p]>> : p \in D} : f \in [D -> 0..MaxWeight] } :
            D \in SUBSET Pairs(n) }

\* ------------------------------------------------------------------
\* State machine
\* ------------------------------------------------------------------
IdleSched == matches = <<>> /\ num_stadiums = 0 /\ dp = <<>> /\ i = 0
IdleGen == block = <<>> /\ assignments = <<>>
IdlePrim ==
    /\ stadiums = <<>> /\ distances = {} /\ visited = <<>>
    /\ min_heap = {} /\ mst = <<>> /\ total_cost = 0

InitSchedule ==
    /\ pc = "schedule_call"
    /\ matches \in MatchLists
    /\ num_stadiums \in 0..MaxVenues
    /\ dp = <<>> /\ i = 0
    /\ IdleGen /\ IdlePrim

InitGenerate ==
    /\ pc = "generate_call"
    /\ block \in SeqsUpTo(MatchPool, MaxMatches)
    /\ num_stadiums \in 0..MaxVenues
    /\ matches = <<>> /\ dp = <<>> /\ i = 0
    /\ assignments = <<>>
    /\ IdlePrim

\* prim_mst on s1..sn with any small table; on s1..s5 with any part of the
\* fixed table; and as main calls it, on the tournament's stadiums with the
\* fixed table
InitPrim ==
    /\ pc = "prim_call"
    /\ \/ \E n \in 0..MaxVertices :
             /\ stadiums = TournamentStadiums(n)
             /\ distances \in Tables(n)
       \/ /\ stadiums = TournamentStadiums(5)
          /\ distances \in SUBSET FixedDistances
       \/ \E n \in 0..MaxStadiums :
             /\ stadiums = TournamentStadiums(n)
             /\ distances = FixedDistances
    /\ visited = <<>> /\ min_heap = {} /\ mst = <<>> /\ total_cost = 0
    /\ IdleSched /\ IdleGen

Init == InitSchedule \/ InitGenerate \/ InitPrim

\* schedule_matches, lines 111-117: n, the stadiums, the dp table with dp[n] = []
ScheduleBegin ==
    /\ pc = "schedule_call"
    /\ dp' = [p \in 0..Len(matches) |-> IF p = Len(matches) THEN Some(<<>>) ELSE None]
    /\ i' = Len(matches) - 1
    /\ pc' = "schedule_loop"
    /\ UNCHANGED <<matches, num_stadiums>>
    /\ UNCHANGED genVars /\ UNCHANGED primVars

\* one iteration of: for i in range(n-1, -1, -1): dp[i] = get_optimizing_solution(...)
ScheduleFill ==
    /\ pc = "schedule_loop"
    /\ i >= 0
    /\ dp' = [dp EXCEPT ![i] =
                 get_optimizing_solution(i, dp, matches, MakeStadiums(num_stadiums))]
    /\ i' = i - 1
    /\ UNCHANGED <<pc, matches, num_stadiums>>
    /\ UNCHANGED genVars /\ UNCHANGED primVars

\* return dp[0]
ScheduleReturn ==
    /\ pc = "schedule_loop"
    /\ i < 0
    /\ pc' = "schedule_done"
    /\ UNCHANGED schedVars /\ UNCHANGED genVars /\ UNCHANGED primVars

\* a direct call of generate_assignments(block, stadiums s1..s<num_stadiums>)
GenerateAssignments ==
    /\ pc = "generate_call"
    /\ assignments' = generate_assignments(block, MakeStadiums(num_stadiums))
    /\ pc' = "generate_done"
    /\ UNCHANGED <<block, matches, num_stadiums, dp, i>>
    /\ UNCHANGED primVars

\* prim_mst, lines 143-147.  stadiums[0] of an empty list raises IndexError,
\* which build_stadium_network (it catches ValueError only) and main let through.
PrimBegin ==
    /\ pc = "prim_call"
    /\ IF stadiums = <<>>
       THEN /\ pc' = "raised"
            /\ UNCHANGED <<visited, min_heap, mst, total_cost>>
       ELSE /\ visited' = [v \in Range(stadiums) |-> FALSE]
            /\ min_heap' = {<<0, stadiums[1], stadiums[1]>>}
            /\ mst' = <<>>
            /\ total_cost' = 0
            /\ pc' = "prim_loop"
    /\ UNCHANGED <<stadiums, distances>>
    /\ UNCHANGED schedVars /\ UNCHANGED genVars

\* variant: the popped pair is recorded even when it is the initial self-loop
PrimVisit_RecordsSelfLoop ==
    /\ pc = "prim_loop"
    /\ LoopCondition(min_heap, mst, stadiums)
    /\ LET entry == HeapMin(min_heap)
           cost == entry[1]
           frm == entry[2]
           to == entry[3]
           vis == [visited EXCEPT ![to] = TRUE]
       IN  /\ ~visited[to]
           /\ visited' = vis
           /\ total_cost' = total_cost + cost
           /\ mst' = Append(mst, <<frm, to>>)
           /\ min_heap' = PushNeighbors(min_heap \ {entry}, to, vis, distances, stadiums, 1)
    /\ UNCHANGED <<pc, stadiums, distances>>
    /\ UNCHANGED schedVars /\ UNCHANGED genVars

\* one iteration whose popped destination is not yet visited
PrimVisit ==
    /\ pc = "prim_loop"
    /\ LoopCondition(min_heap, mst, stadiums)
    /\ LET entry == HeapMin(min_heap)
           cost == entry[1]
           frm == entry[2]
           to == entry[3]
           vis == [visited EXCEPT ![to] = TRUE]
       IN  /\ ~visited[to]
           /\ visited' = vis
           /\ total_cost' = total_cost + cost
           /\ mst' = IF frm # to THEN Append(mst, <<frm, to>>) ELSE mst
           /\ min_heap' = PushNeighbors(min_heap \ {entry}, to, vis, distances, stadiums, 1)
    /\ UNCHANGED <<pc, stadiums, distances>>
    /\ UNCHANGED schedVars /\ UNCHANGED genVars

\* variant: the visited test is missing, the popped entry is counted and recorded
PrimDiscard_NoVisitedTest ==
    /\ pc = "prim_loop"
    /\ LoopCondition(min_heap, mst, stadiums)
    /\ LET entry == HeapMin(min_heap)
       IN  /\ visited[entry[3]]
           /\ min_heap' = min_heap \ {entry}
           /\ total_cost' = total_cost + entry[1]
           /\ mst' = Append(mst, <<entry[2], entry[3]>>)
    /\ UNCHANGED <<pc, stadiums, distances, visited>>
    /\ UNCHANGED schedVars /\ UNCHANGED genVars

\* one iteration whose popped destination is already visited
PrimDiscard ==
    /\ pc = "prim_loop"
    /\ LoopCondition(min_heap, mst, stadiums)
    /\ LET entry == HeapMin(min_heap)
       IN  /\ visited[entry[3]]
           /\ min_heap' = min_heap \ {entry}
    /\ UNCHANGED <<pc, stadiums, distances, visited, mst, total_cost>>
    /\ UNCHANGED schedVars /\ UNCHANGED genVars

\* return total_cost, mst
PrimReturn ==
    /\ pc = "prim_loop"
    /\ ~LoopCondition(min_heap, mst, stadiums)
    /\ pc' = "prim_done"
    /\ UNCHANGED primVars /\ UNCHANGED schedVars /\ UNCHANGED genVars

Next ==
    \/ ScheduleBegin
    \/ ScheduleFill
    \/ ScheduleReturn
    \/ GenerateAssignments
    \/ PrimBegin
    \/ PrimVisit
    \/ PrimDiscard
    \/ PrimReturn

Spec == Init /\ [][Next]_vars

\* ------------------------------------------------------------------
\* Vocabulary of the properties
\* ------------------------------------------------------------------
\* schedule_matches has returned, and its value
ScheduleDone == pc = "schedule_done"
Returned == dp[0]

\* the matches of a day in the order the day lists them
DayMatches(day) == [j \in 1..Len(day) |-> day[j][2]]
\* the matches of a schedule, day after day
Listing(sched) == Flatten([d \in 1..Len(sched) |-> DayMatches(sched[d])])

\* number of positions of s holding x
Count(s, x) == Cardinality({j \in 1..Len(s) : s[j] = x})

CeilDiv(a, b) == (a + b - 1) \div b

\* some placement of n matches on at most 'days' days puts at most m
\* matches (one per venue) on each day
FitsIn(n, m, days) ==
    \E f \in [1..n -> 1..days] :
        \A d \in 1..days : Cardinality({p \in 1..n : f[p] = d}) <= m

\* no venue twice in a day, venues among s1..sm
DayWellFormed(day, m) ==
    /\ Cardinality(DictKeys(day)) = Len(day)
    /\ DictKeys(day) \subseteq 1..m
    /\ Len(day) <= m

\* C1: with at least one venue, the returned schedule has
\* ceil(len(matches) / venue_count) days, and no placement of the matches
\* with at most one match per venue per day fits in fewer days
C1_MinimalDays ==
    (ScheduleDone /\ num_stadiums >= 1) =>
        /\ ~Returned.isNone
        /\ Len(Returned.sched) = CeilDiv(Len(matches), num_stadiums)
        /\ \A fewer \in 0..(Len(Returned.sched) - 1) :
               ~FitsIn(Len(matches), num_stadiums, fewer)

\* the 6 round-robin matchups on 2 venues came back as 3 days
C1_Witness ==
    /\ ScheduleDone /\ matches = matchups /\ num_stadiums = 2
    /\ Len(Returned.sched) = 3

\* C2: a returned schedule holds every input match as often as the input
\* list does and nothing else, and no day uses a venue twice or more than
\* venue_count venues
C2_CoversOnce ==
    (ScheduleDone /\ ~Returned.isNone) =>
        /\ Len(Listing(Returned.sched)) = Len(matches)
        /\ \A x \in Range(matches) \cup Range(Listing(Returned.sched)) :
               Count(Listing(Returned.sched), x) = Count(matches, x)
        /\ \A d \in 1..Len(Returned.sched) :
               DayWellFormed(Returned.sched[d], num_stadiums)

\* a schedule of several days, one of them with several matches, for a list
\* that repeats a match
C2_Witness ==
    /\ ScheduleDone /\ ~Returned.isNone
    /\ Len(Returned.sched) >= 2
    /\ \E d \in 1..Len(Returned.sched) : Len(Returned.sched[d]) >= 2
    /\ \E x \in Range(matches) : Count(matches, x) >= 2

\* one day that gives every match its own venue
SingleDay(r) ==
    /\ ~r.isNone
    /\ Len(r.sched) = 1
    /\ DayMatches(r.sched[1]) = matches
    /\ DayWellFormed(r.sched[1], num_stadiums)

\* C3 as stated: every list with len(matches) <= venue_count comes back as
\* exactly one day
C3_Original ==
    (ScheduleDone /\ Len(matches) <= num_stadiums) => SingleDay(Returned)

\* C3 as amended: every non-empty list with len(matches) <= venue_count comes
\* back as exactly one day with every match on its own venue; the empty list
\* comes back as the empty schedule
C3_SingleDay ==
    (ScheduleDone /\ Len(matches) <= num_stadiums) =>
        IF matches = <<>> THEN Returned = Some(<<>>) ELSE SingleDay(Returned)

\* three matches on three venues came back as one day
C3_Witness ==
    /\ ScheduleDone /\ Len(matches) = 3 /\ num_stadiums = 3
    /\ Len(Returned.sched) = 1 /\ Len(Returned.sched[1]) = 3

\* ------------------------------------------------------------------
\* generate_assignments called on its own
\* ------------------------------------------------------------------
GenerateDone == pc = "generate_done"

\* P(n, k) = n! / (n - k)!
RECURSIVE FallingFactorial(_, _)
FallingFactorial(n, k) == IF k = 0 THEN 1 ELSE n * FallingFactorial(n - 1, k - 1)

\* the ordered selections of k distinct venues among s1..sn
Selections(n, k) ==
    {sel \in [1..k -> 1..n] : \A a, b \in 1..k : a # b => sel[a] # sel[b]}

\* the venues of a day in the order the day lists them
DayVenues(day) == [j \in 1..Len(day) |-> day[j][1]]

\* C5: generate_assignments returns the empty sequence exactly when the block
\* is longer than the venue list; otherwise it returns P(n, k) days, one for
\* each ordered selection of k distinct venues and none twice, the j-th
\* match of the block on the j-th venue of the selection
C5_Assignments ==
    GenerateDone =>
        LET k == Len(block)
            n == num_stadiums
            sels == [q \in 1..Len(assignments) |-> DayVenues(assignments[q])]
        IN  /\ (assignments = <<>>) <=> (k > n)
            /\ (k <= n) =>
                  /\ Len(assignments) = FallingFactorial(n, k)
                  /\ Range(sels) = Selections(n, k)
                  /\ Cardinality(Range(sels)) = Len(assignments)
                  /\ \A q \in 1..Len(assignments) : DayMatches(assignments[q]) = block

\* two matches on three venues gave the 6 days
C5_Witness ==
    /\ GenerateDone /\ Len(block) = 2 /\ num_stadiums = 3
    /\ Len(assignments) = 6

\* C6: schedule_matches returns None exactly when venue_count = 0 and the
\* match list is not empty; an empty match list gives the empty schedule
C6_Infeasible ==
    ScheduleDone =>
        /\ Returned.isNone <=> (num_stadiums = 0 /\ matches # <<>>)
        /\ (matches = <<>>) => (Returned = Some(<<>>))

\* None came back for a non-empty list on no venue
C6_Witness ==
    ScheduleDone /\ num_stadiums = 0 /\ Len(matches) >= 2 /\ Returned.isNone

\* ------------------------------------------------------------------
\* The kept candidate
\* ------------------------------------------------------------------
\* the first day tried for a block of k matches starting at position pos:
\* its j-th match on venue s<j>
FirstDay(pos, k) == [j \in 1..k |-> <<j, matches[pos + j]>>]

\* block lengths at pos that have a feasible continuation
Usable(pos) ==
    {k \in 1..num_stadiums : pos + k <= Len(matches) /\ ~dp[pos + k].isNone}

DaysWith(pos, k) == 1 + Len(dp[pos + k].sched)

SetMin(S) == CHOOSE x \in S : \A y \in S : x <= y

\* what "first minimal candidate" keeps at pos
FirstMinimal(pos) ==
    IF Usable(pos) = {} THEN None
    ELSE LET fewest == SetMin({DaysWith(pos, k) : k \in Usable(pos)})
             k0 == SetMin({k \in Usable(pos) : DaysWith(pos, k) = fewest})
         IN  Some(<<FirstDay(pos, k0)>> \o dp[pos + k0].sched)

\* C9: every filled dp[p] is the first minimal-day candidate in the order
\* block length 1..venue_count, then permutation order: the smallest block
\* length reaching the fewest days, its j-th match on venue s<j>, followed
\* by dp[p + k]
C9_FirstMinimalKept ==
    (pc \in {"schedule_loop", "schedule_done"}) =>
        \A p \in (i + 1)..(Len(matches) - 1) : dp[p] = FirstMinimal(p)

\* a tie: 3 matches on 2 venues need 2 days either as 1+2 or as 2+1 matches,
\* and the kept schedule starts with the single match
C9_Witness ==
    /\ ScheduleDone /\ Len(matches) = 3 /\ num_stadiums = 2
    /\ Len(Returned.sched) = 2
    /\ Len(Returned.sched[1]) = 1 /\ Len(Returned.sched[2]) = 2

\* C10: the days of a returned schedule, listed in order, give back the
\* input list: each day is a contiguous block and the blocks follow the
\* input order
C10_InputOrder ==
    (ScheduleDone /\ ~Returned.isNone) =>
        /\ Listing(Returned.sched) = matches
        /\ \A d \in 1..Len(Returned.sched) : Len(Returned.sched[d]) >= 1

\* the round-robin list came back in several days of several matches
C10_Witness ==
    /\ ScheduleDone /\ matches = matchups /\ num_stadiums = 2
    /\ \A d \in 1..Len(Returned.sched) : Len(Returned.sched[d]) = 2
    /\ Listing(Returned.sched) = matchups

\* ------------------------------------------------------------------
\* Graphs, for the properties of prim_mst
\* ------------------------------------------------------------------
PrimDone == pc = "prim_done"

Vertices == Range(stadiums)

\* the entries of the weight table that join two vertices of the list
GraphEdges == {e \in distances : e[1] \in Vertices /\ e[2] \in Vertices /\ e[1] # e[2]}

\* the vertices joined to the set S by the edges E, edges taken both ways
RECURSIVE ReachFrom(_, _)
ReachFrom(S, E) ==
    LET more == S \cup {e[2] : e \in {x \in E : x[1] \in S}}
                  \cup {e[1] : e \in {x \in E : x[2] \in S}}
    IN  IF more = S THEN S ELSE ReachFrom(more, E)

\* the vertices reachable from vertices[0]
Reachable == ReachFrom({stadiums[1]}, GraphEdges)

Connected == stadiums # <<>> /\ Reachable = Vertices

RECURSIVE WeightSum(_)
WeightSum(E) ==
    IF E = {} THEN 0
    ELSE LET e == CHOOSE x \in E : TRUE IN e[3] + WeightSum(E \ {e})

\* the spanning trees of the vertex set R: |R| - 1 edges inside R joining all of R
SpanningTrees(R) ==
    {T \in SUBSET {e \in GraphEdges : e[1] \in R /\ e[2] \in R} :
        /\ Cardinality(T) = Cardinality(R) - 1
        /\ ReachFrom({stadiums[1]}, T) = R}

\* the table entries of the returned edges
EdgeEntries(tree) ==
    {e \in GraphEdges : \E j \in 1..Len(tree) :
        \/ (e[1] = tree[j][1] /\ e[2] = tree[j][2])
        \/ (e[1] = tree[j][2] /\ e[2] = tree[j][1])}

\* the returned edges are Len(tree) different edges of the graph and form a
\* spanning tree of R, total_cost is their weight, and no spanning tree of R
\* weighs less
MinimumTreeOf(R) ==
    /\ Len(mst) = Cardinality(R) - 1
    /\ Cardinality(EdgeEntries(mst)) = Len(mst)
    /\ EdgeEntries(mst) \in SpanningTrees(R)
    /\ \A j \in 1..Len(mst) : mst[j][1] \in R /\ mst[j][2] \in R
    /\ total_cost = WeightSum(EdgeEntries(mst))
    /\ \A T \in SpanningTrees(R) : total_cost <= WeightSum(T)

\* C4: on a connected graph prim_mst returns len(vertices) - 1 edges that
\* form a spanning tree, total_cost is the sum of their weights, no spanning
\* tree weighs less, and on s1..s5 with the fixed table the cost is 30
C4_MinimumSpanningTree ==
    (PrimDone /\ Connected) =>
        /\ Len(mst) = Len(stadiums) - 1
        /\ MinimumTreeOf(Vertices)
        /\ (Len(stadiums) = 5 /\ distances = FixedDistances) => total_cost = 30

\* the fixed table on s1..s5 came back with 4 edges of total cost 30
C4_Witness ==
    /\ PrimDone /\ Len(stadiums) = 5 /\ distances = FixedDistances
    /\ Len(mst) = 4 /\ total_cost = 30

\* C7: on a disconnected graph prim_mst returns with the queue empty and
\* fewer than len(vertices) - 1 edges; these touch reachable vertices only
\* and are a minimum spanning tree of the vertices reachable from vertices[0]
C7_DisconnectedComponent ==
    (PrimDone /\ stadiums # <<>> /\ ~Connected) =>
        /\ min_heap = {}
        /\ Len(mst) < Len(stadiums) - 1
        /\ MinimumTreeOf(Reachable)
        /\ \A v \in Vertices : visited[v] <=> v \in Reachable

\* a disconnected graph whose reachable part has 3 vertices and a cycle
C7_Witness ==
    /\ PrimDone /\ stadiums # <<>> /\ ~Connected
    /\ Cardinality(Reachable) >= 3
    /\ Cardinality(GraphEdges) >= Cardinality(Vertices)
    /\ Len(mst) = Cardinality(Reachable) - 1

\* C8: no call ends in a raised error
C8_NeverRaises == pc # "raised"

\* ------------------------------------------------------------------
\* The loop of prim_mst
\* ------------------------------------------------------------------
\* the loop is running or has ended, and its first pop has happened
AfterFirstPop == pc \in {"prim_loop", "prim_done"} /\ visited[stadiums[1]]

VisitedSet == {v \in Vertices : visited[v]}

\* the vertices visited before the j-th edge was recorded: the start vertex
\* and the destinations of the edges recorded earlier
VisitedBefore(j) == {stadiums[1]} \cup {mst[k][2] : k \in 1..(j - 1)}

\* the weight the table gives the pair (a, b), whichever way it is keyed
PairWeight(a, b) ==
    (CHOOSE e \in distances : (e[1] = a /\ e[2] = b) \/ (e[1] = b /\ e[2] = a))[3]

RECURSIVE TreeWeight(_)
TreeWeight(tree) ==
    IF tree = <<>> THEN 0
    ELSE PairWeight(Head(tree)[1], Head(tree)[2]) + TreeWeight(Tail(tree))

\* C11: once the first pop has happened, every recorded edge joined a vertex
\* visited before it to a vertex not visited before it, the recorded edges
\* are graph edges joining exactly the visited vertices, there is one more
\* visited vertex than recorded edges, no recorded edge is a self-loop, and
\* total_cost is the sum of the weights of the recorded edges
C11_TreeOverVisited ==
    AfterFirstPop =>
        /\ \A j \in 1..Len(mst) :
              /\ mst[j][1] \in VisitedBefore(j)
              /\ mst[j][2] \notin VisitedBefore(j)
              /\ mst[j][1] # mst[j][2]
              /\ \E e \in GraphEdges :
                    \/ (e[1] = mst[j][1] /\ e[2] = mst[j][2])
                    \/ (e[1] = mst[j][2] /\ e[2] = mst[j][1])
        /\ VisitedSet = VisitedBefore(Len(mst) + 1)
        /\ ReachFrom({stadiums[1]}, EdgeEntries(mst)) = VisitedSet
        /\ Cardinality(VisitedSet) = Len(mst) + 1
        /\ total_cost = TreeWeight(mst)

\* the loop is still running with three vertices visited and two edges recorded
C11_Witness ==
    /\ pc = "prim_loop" /\ AfterFirstPop
    /\ Cardinality(VisitedSet) = 3 /\ Len(mst) = 2
    /\ total_cost > 0
    /\ LoopCondition(min_heap, mst, stadiums)

\* ------------------------------------------------------------------
\* Lazy deletion
\* ------------------------------------------------------------------
\* the queue entries whose destination is already visited
StaleEntries == {e \in min_heap : visited[e[3]]}

\* the loop is about to pop an entry whose destination is already visited:
\* the loop condition holds and the least entry of the queue is stale
PopsStale ==
    /\ pc = "prim_loop"
    /\ min_heap # {}
    /\ Len(mst) < Len(stadiums) - 1
    /\ \E e \in StaleEntries : \A y \in min_heap : ~EntryLess(y, e)

\* the step takes exactly the least entry out of the queue, puts nothing in,
\* and leaves the visited set, the cost and the recorded edges as they were
OnlyEntryRemoved ==
    /\ \E e \in StaleEntries :
          /\ \A y \in min_heap : ~EntryLess(y, e)
          /\ min_heap' = min_heap \ {e}
    /\ Cardinality(min_heap') = Cardinality(min_heap) - 1
    /\ visited' = visited
    /\ total_cost' = total_cost
    /\ mst' = mst

\* no vertex is the destination of two recorded edges
NoSharedDestination ==
    \A j, k \in 1..Len(mst) : j # k => mst[j][2] # mst[k][2]

\* C12: a pop of an entry whose destination is already visited removes that
\* entry only, leaving visited, total_cost and the recorded edges unchanged
\* and pushing nothing; and in every state of the loop no vertex is the
\* destination of two recorded edges
C12_LazyDeletion ==
    /\ [][PopsStale => OnlyEntryRemoved]_vars
    /\ [](pc \in {"prim_loop", "prim_done"} => NoSharedDestination)

\* the graph edges whose two ends are visited: each was pushed once, and is
\* now recorded, still in the queue, or was popped and discarded
SettledEdges == {e \in GraphEdges : visited[e[1]] /\ visited[e[2]]}

\* a stale entry has been popped and discarded, another one is still in the
\* queue, and the loop goes on
C12_Witness ==
    /\ pc = "prim_loop"
    /\ LoopCondition(min_heap, mst, stadiums)
    /\ StaleEntries # {}
    /\ Cardinality(SettledEdges) - Len(mst) - Cardinality(StaleEntries) >= 1
    /\ Len(mst) >= 2

====
